---- MODULE Spec2Model ----
(***************************************************************************)
(* bbbs: repackaging of an SKSA container (src/src/lib.rs, build) with the *)
(* byte sinks and sources of src/src/args.rs (IOType).                     *)
(*                                                                         *)
(* Byte buffers (Vec<u8>) are sequences of 0..255 at the program's real    *)
(* sizes.  The functions of the external crates (soft_aes, sha1, bb) are   *)
(* modelled by their interface: the cipher keeps lengths, depends on key   *)
(* and iv, chains blocks and refuses a bad key or buffer length; the hash  *)
(* is a 20-byte function of the whole message; the record decoders and the *)
(* boot-ROM key derivation answer either an error or a record.             *)
(***************************************************************************)
EXTENDS Integers, Sequences, FiniteSets, TLC

\* ------------------------------------------------------------ constants

SK_SIZE == 64 * 1024
SA1_INFO_BLOCK_SIZE == 16 * 1024
SKSA_MIN_BYTES == SK_SIZE + SA1_INFO_BLOCK_SIZE
ROM_HEADER_SIZE == 4 * 1024
\* 2 * size_of::<u32>()
ENTRYPOINT_OFFSET == 2 * 4
\* 0x8030_0000 as its two 16-bit halves (the value exceeds TLC's integers)
UNZIP_BUF_OFFSET == [hi |-> (8 * 4096) + (3 * 16), lo |-> 0]

\* soft_aes: AES_BLOCK_SIZE, and the key length of AES-128
AES_BLOCK_SIZE == 16
AES_KEY_SIZE == 16
\* sha1 / BbShaHash: the digest length
SHA1_SIZE == 20

\* ------------------------------------------------------------ bounds

\* payloads are 0..MaxPayload bytes long
MaxPayload == 2
\* containers carry up to MaxTail bytes past SKSA_MIN_BYTES
MaxTail == 1
\* target image sizes reach ROM_HEADER_SIZE + MaxBlocks cipher blocks
MaxBlocks == 1
\* a single write call may fall up to MaxShort bytes short of the data
MaxShort == 1

\* ------------------------------------------------------------ bytes

\* vec![b; n]
Fill(n, b) == SubSeq([i \in 1..n |-> b], 1, n)

\* to_be_bytes with a fault: the bytes in little-endian order
to_le_bytes(w) == <<w.lo % 256, w.lo \div 256, w.hi % 256, w.hi \div 256>>

\* u32::to_be_bytes
to_be_bytes(w) == <<w.hi \div 256, w.hi % 256, w.lo \div 256, w.lo % 256>>

\* Vec::resize(new_len, value): truncates, or appends copies of value
resize(v, new_len, value) ==
    SubSeq([i \in 1..new_len |-> IF i <= Len(v) THEN v[i] ELSE value], 1, new_len)

\* HashHex::to_hex: two hexadecimal digits (0..15) per byte
to_hex(h) ==
    SubSeq([i \in 1..(2 * Len(h)) |->
              IF i % 2 = 1 THEN h[(i + 1) \div 2] \div 16 ELSE h[i \div 2] % 16],
           1, 2 * Len(h))

\* ------------------------------------------------------------ soft_aes, sha1

\* the block transformation under one key byte, and its inverse
EncByte(x, k) == (x + k + 1) % 256
DecByte(y, k) == (y - k - 1) % 256

KeyAt(key, n) == key[((n - 1) % AES_BLOCK_SIZE) + 1]

CipherArgsOk(data, key, iv) ==
    /\ Len(key) = AES_KEY_SIZE
    /\ Len(iv) = AES_BLOCK_SIZE
    /\ Len(data) % AES_BLOCK_SIZE = 0

\* aes_dec_cbc(ciphertext, key, iv, None): Result<Vec<u8>, _>
aes_dec_cbc(ct, key, iv) ==
    IF ~CipherArgsOk(ct, key, iv)
    THEN [ok |-> FALSE, val |-> <<>>]
    ELSE [ok |-> TRUE,
          val |-> SubSeq([n \in 1..Len(ct) |->
                            (DecByte(ct[n], KeyAt(key, n))
                               - (IF n <= AES_BLOCK_SIZE THEN iv[n]
                                  ELSE ct[n - AES_BLOCK_SIZE])) % 256],
                         1, Len(ct))]

\* one block: the plaintext block is combined with the previous ciphertext
\* block (the iv for the first) and transformed under the key
CbcEncBlock(pt, key, prev, b) ==
    SubSeq([j \in 1..AES_BLOCK_SIZE |->
              EncByte((pt[((b - 1) * AES_BLOCK_SIZE) + j] + prev[j]) % 256, key[j])],
           1, AES_BLOCK_SIZE)

\* blocks lo..hi in order, each chained to the ciphertext block before it
RECURSIVE CbcEncBlocks(_, _, _, _, _)
CbcEncBlocks(pt, key, prev, lo, hi) ==
    IF lo > hi THEN <<>>
    ELSE IF lo = hi THEN CbcEncBlock(pt, key, prev, lo)
    ELSE LET mid == (lo + hi) \div 2
             left == CbcEncBlocks(pt, key, prev, lo, mid)
             last == SubSeq(left, Len(left) - AES_BLOCK_SIZE + 1, Len(left))
         IN  left \o CbcEncBlocks(pt, key, last, mid + 1, hi)

\* aes_enc_cbc(plaintext, key, iv, None): Result<Vec<u8>, _>
aes_enc_cbc(pt, key, iv) ==
    IF ~CipherArgsOk(pt, key, iv)
    THEN [ok |-> FALSE, val |-> <<>>]
    ELSE [ok |-> TRUE,
          val |-> CbcEncBlocks(pt, key, iv, 1, Len(pt) \div AES_BLOCK_SIZE)]

RECURSIVE ByteSum(_, _, _)
ByteSum(m, lo, hi) ==
    IF lo > hi THEN 0
    ELSE IF lo = hi THEN m[lo]
    ELSE LET mid == (lo + hi) \div 2
         IN  (ByteSum(m, lo, mid) + ByteSum(m, mid + 1, hi)) % 65536

\* Sha1::new(); update(m); finalize()
Sha1(m) ==
    LET s == ByteSum(m, 1, Len(m))
    IN  SubSeq([j \in 1..SHA1_SIZE |-> ((s * j) + Len(m) + 90) % 256], 1, SHA1_SIZE)

\* ------------------------------------------------------------ inputs

\* the payloads the caller may supply
Payloads == {Fill(n, b) : n \in 0..MaxPayload, b \in {0, 255}}

\* first-stage kernel ciphertext: zero bytes, the first byte's low bit set or not
KernelCt(flip) == <<flip>> \o Fill(SK_SIZE - 1, 0)

\* a container: kernel ciphertext, info block, then a tail of extra bytes
Container(len, flip) ==
    SubSeq(KernelCt(flip)
             \o [i \in 1..SA1_INFO_BLOCK_SIZE |-> (i % 7) + 1]
             \o Fill(len - SKSA_MIN_BYTES, 238),
           1, len)

\* the containers the sksa source may hold, each named by its length and the
\* first byte of its kernel ciphertext: empty, the kernel alone, one byte too
\* short, the minimum with a bit of the kernel flipped, and the minimum and
\* longer ones with the zero kernel
ContainerFiles ==
    {[len |-> n, flip |-> 0] : n \in {0, SK_SIZE, SKSA_MIN_BYTES - 1}}
      \cup {[len |-> SKSA_MIN_BYTES, flip |-> 1]}
      \cup {[len |-> SKSA_MIN_BYTES + t, flip |-> 0] : t \in 0..MaxTail}

NoFile == [len |-> 0, flip |-> 0]

\* the (key, iv) pair the boot ROM yields
BootKey == Fill(AES_KEY_SIZE, 7)
BootIv == Fill(AES_BLOCK_SIZE, 9)

\* the digest of the zero kernel ciphertext decrypted under the boot-ROM keys
GoodHash == Sha1(aes_dec_cbc(KernelCt(0), BootKey, BootIv).val)

\* the trust-anchor descriptors: the matching digest, or its last byte altered
Virage2s ==
    {[sk_hash |-> h, boot_app_key |-> Fill(AES_KEY_SIZE, 3)] :
        h \in {GoodHash,
               [GoodHash EXCEPT ![SHA1_SIZE] = (GoodHash[SHA1_SIZE] + 1) % 256]}}

\* target image sizes: below the ROM header, block-aligned above it, and misaligned
Sizes ==
    {AES_BLOCK_SIZE}
      \cup {ROM_HEADER_SIZE + (AES_BLOCK_SIZE * k) : k \in 0..MaxBlocks}
      \cup {ROM_HEADER_SIZE + 1}

\* the command headers a container may decode to
CmdHeads ==
    {[key |-> Fill(AES_KEY_SIZE, 17), common_cmd_iv |-> Fill(AES_BLOCK_SIZE, 5),
      iv |-> Fill(AES_BLOCK_SIZE, 6), size |-> s] : s \in Sizes}

NoCmd == [key |-> <<>>, common_cmd_iv |-> <<>>, iv |-> <<>>, size |-> 0]
NoVirage2 == [sk_hash |-> <<>>, boot_app_key |-> <<>>]

\* ------------------------------------------------------------ state

VARIABLES
    pc,               \* the stage of build about to run, or "done"
    result,           \* "Running", "Ok", an error kind, or "Panic"
    err,              \* the fields of the error value, or the panic message
    out_kind,         \* args.outfile: "Stdout" or "File"
    reads,            \* the inputs IOType::read was called on, in order
    loaded,           \* the inputs read into memory so far
    trace,            \* the stages run so far, in order
    sksa_file,        \* the container read: which of ContainerFiles
    infile, bootrom,
    cmd, virage2,
    sk_keys, sk, sk_hash, sa1_key,
    sa1, sa1_enc, outfile,
    sink,             \* the bytes the output sink has received
    written           \* the byte count IOType::write answered (build drops it)

vars == <<pc, result, err, out_kind, reads, loaded, trace,
          sksa_file, infile, bootrom, cmd, virage2, sk_keys, sk, sk_hash, sa1_key,
          sa1, sa1_enc, outfile, sink, written>>

\* let sksa: the bytes of the container read
sksa == Container(sksa_file.len, sksa_file.flip)

\* the statements of build, in program order
Stages ==
    <<"read_infile", "read_sksa", "check_len", "decode_cmd", "check_cap",
      "read_virage2", "decode_virage2", "read_bootrom", "bootrom_keys",
      "dec_sk", "sha1", "check_hash", "dec_key", "make_sa1", "resize",
      "enc_sa1", "assemble", "write">>

StageIndex(s) == CHOOSE i \in 1..Len(Stages) : Stages[i] = s

After(s) ==
    IF StageIndex(s) = Len(Stages) THEN "done" ELSE Stages[StageIndex(s) + 1]

Init ==
    /\ pc = Stages[1]
    /\ result = "Running"
    /\ err = <<>>
    /\ out_kind \in {"Stdout", "File"}
    /\ reads = <<>>
    /\ loaded = {}
    /\ trace = <<>>
    /\ infile = <<>> /\ sksa_file = NoFile /\ bootrom = <<>>
    /\ cmd = NoCmd /\ virage2 = NoVirage2
    /\ sk_keys = <<>> /\ sk = <<>> /\ sk_hash = <<>> /\ sa1_key = <<>>
    /\ sa1 = <<>> /\ sa1_enc = <<>> /\ outfile = <<>>
    /\ sink = <<>>
    /\ written = 0

\* the statement at pc runs
At(stage) ==
    /\ pc = stage
    /\ trace' = Append(trace, stage)

\* the statement succeeded: on to the next one
Continue ==
    /\ pc' = After(pc)
    /\ UNCHANGED <<result, err>>

\* Fail with a fault: the error is recorded but build goes on to the next statement
Fail_NoReturn(kind, fields) ==
    /\ pc' = After(pc)
    /\ result' = kind
    /\ err' = fields

\* return Err(..), the ? operator on an Err, or a panic: build ends here
Fail(kind, fields) ==
    /\ pc' = "done"
    /\ result' = kind
    /\ err' = fields

\* ------------------------------------------------------------ helpers

\* a - b on usize.  On overflow the wrapped value is 2^BITS - val.
usize_sub(a, b) ==
    IF a >= b THEN [overflow |-> FALSE, val |-> a - b]
    ELSE [overflow |-> TRUE, val |-> b - a]

\* len > cap for a Vec length and a usize difference.  A wrapped difference is
\* at least 2^BITS - ROM_HEADER_SIZE, above every Vec length (<= isize::MAX).
usize_gt(len, cap) == IF cap.overflow THEN FALSE ELSE len > cap.val

\* TooShort with a fault: the info block is left out of the minimum
TooShort_KernelOnly(len) == len < SK_SIZE

\* sksa.len() < SKSA_MIN_BYTES
TooShort(len) == len < SKSA_MIN_BYTES

\* HashDiffers with a fault: only the first byte of the digests is compared
HashDiffers_FirstByte(calculated, expected) == calculated[1] # expected[1]

\* sk_hash[..] != virage2.sk_hash
HashDiffers(calculated, expected) == calculated # expected

make_sa1(payload) ==
    LET zeroed == Fill(ROM_HEADER_SIZE, 0)
        rv == SubSeq(zeroed, 1, ENTRYPOINT_OFFSET)
                \o to_be_bytes(UNZIP_BUF_OFFSET)
                \o SubSeq(zeroed, ENTRYPOINT_OFFSET + 4 + 1, ROM_HEADER_SIZE)
    IN  rv \o payload

\* Assemble with a fault: the whole container is copied, not its first SKSA_MIN_BYTES
Assemble_WholeContainer(container, enc) == container \o enc

\* outfile = sksa[0..SKSA_MIN_BYTES] followed by sa1_enc
Assemble(container, enc) == SubSeq(container, 1, SKSA_MIN_BYTES) \o enc

\* ------------------------------------------------------------ build

\* let infile = args.infile.read()?;
ReadInfile ==
    /\ At("read_infile")
    /\ reads' = Append(reads, "infile")
    /\ \/ \E payload \in Payloads :
            /\ infile' = payload
            /\ loaded' = loaded \cup {"infile"}
            /\ Continue
       \/ /\ Fail("Io", <<"infile">>)
          /\ UNCHANGED <<infile, loaded>>
    /\ UNCHANGED <<out_kind, sksa_file, bootrom, cmd, virage2, sk_keys, sk, sk_hash,
                   sa1_key, sa1, sa1_enc, outfile, sink, written>>

\* let sksa = args.sksa.read()?;
ReadSksa ==
    /\ At("read_sksa")
    /\ reads' = Append(reads, "sksa")
    /\ \/ \E file \in ContainerFiles :
            /\ sksa_file' = file
            /\ loaded' = loaded \cup {"sksa"}
            /\ Continue
       \/ /\ Fail("Io", <<"sksa">>)
          /\ UNCHANGED <<sksa_file, loaded>>
    /\ UNCHANGED <<out_kind, infile, bootrom, cmd, virage2, sk_keys, sk, sk_hash,
                   sa1_key, sa1, sa1_enc, outfile, sink, written>>

\* if sksa.len() < SKSA_MIN_BYTES { return Err(SKSATooShort(sksa.len())) }
CheckLength ==
    /\ At("check_len")
    /\ IF TooShort(Len(sksa))
       THEN Fail("SKSATooShort", <<Len(sksa)>>)
       ELSE Continue
    /\ UNCHANGED <<out_kind, reads, loaded, infile, sksa_file, bootrom, cmd, virage2,
                   sk_keys, sk, sk_hash, sa1_key, sa1, sa1_enc, outfile, sink,
                   written>>

\* let cmd = CmdHead::read_from_buf(&sksa[SK_SIZE..SK_SIZE + SA1_CMD_HEAD_SIZE])?;
DecodeCmd ==
    /\ At("decode_cmd")
    /\ \/ \E head \in CmdHeads :
            /\ cmd' = head
            /\ Continue
       \/ /\ Fail("Decode", <<"CmdHead">>)
          /\ UNCHANGED cmd
    /\ UNCHANGED <<out_kind, reads, infile, sksa_file, bootrom, virage2, sk_keys, sk,
                   sk_hash, sa1_key, sa1, sa1_enc, outfile, sink, loaded, written>>

\* if infile.len() > cmd.size as usize - ROM_HEADER_SIZE { return Err(PayloadTooLong(..)) }
\* When cmd.size < ROM_HEADER_SIZE the subtraction overflows: the build panics
\* there (overflow checks on, the debug profile) or wraps (off, the release profile).
CheckCapacity ==
    /\ At("check_cap")
    /\ LET cap == usize_sub(cmd.size, ROM_HEADER_SIZE)
       IN  \/ /\ cap.overflow
              /\ Fail("Panic", <<"attempt to subtract with overflow">>)
           \/ /\ cap.overflow
              /\ Continue
           \/ /\ ~cap.overflow
              /\ IF usize_gt(Len(infile), cap)
                 THEN Fail("PayloadTooLong",
                           <<Len(infile), cmd.size - ROM_HEADER_SIZE>>)
                 ELSE Continue
    /\ UNCHANGED <<out_kind, reads, loaded, infile, sksa_file, bootrom, cmd, virage2,
                   sk_keys, sk, sk_hash, sa1_key, sa1, sa1_enc, outfile, sink,
                   written>>

\* let virage2 = args.virage2.read()?;
ReadVirage2 ==
    /\ At("read_virage2")
    /\ reads' = Append(reads, "virage2")
    /\ \/ /\ loaded' = loaded \cup {"virage2"}
          /\ Continue
       \/ /\ Fail("Io", <<"virage2">>)
          /\ UNCHANGED loaded
    /\ UNCHANGED <<out_kind, infile, sksa_file, bootrom, cmd, virage2, sk_keys, sk,
                   sk_hash, sa1_key, sa1, sa1_enc, outfile, sink, written>>

\* let virage2 = Virage2::read_from_buf(&virage2)?;
DecodeVirage2 ==
    /\ At("decode_virage2")
    /\ \/ \E v \in Virage2s :
            /\ virage2' = v
            /\ Continue
       \/ /\ Fail("Decode", <<"Virage2">>)
          /\ UNCHANGED virage2
    /\ UNCHANGED <<out_kind, reads, infile, sksa_file, bootrom, cmd, sk_keys, sk,
                   sk_hash, sa1_key, sa1, sa1_enc, outfile, sink, loaded, written>>

\* ReadBootrom with a fault: the trust-anchor source is read a second time instead
ReadBootrom_Virage2Again ==
    /\ At("read_bootrom")
    /\ reads' = Append(reads, "virage2")
    /\ \/ /\ bootrom' = Fill(AES_BLOCK_SIZE, 66)
          /\ loaded' = loaded \cup {"virage2"}
          /\ Continue
       \/ /\ Fail("Io", <<"virage2">>)
          /\ UNCHANGED <<bootrom, loaded>>
    /\ UNCHANGED <<out_kind, infile, sksa_file, cmd, virage2, sk_keys, sk, sk_hash,
                   sa1_key, sa1, sa1_enc, outfile, sink, written>>

\* let bootrom = args.bootrom.read()?;
ReadBootrom ==
    /\ At("read_bootrom")
    /\ reads' = Append(reads, "bootrom")
    /\ \/ /\ bootrom' = Fill(AES_BLOCK_SIZE, 66)
          /\ loaded' = loaded \cup {"bootrom"}
          /\ Continue
       \/ /\ Fail("Io", <<"bootrom">>)
          /\ UNCHANGED <<bootrom, loaded>>
    /\ UNCHANGED <<out_kind, infile, sksa_file, cmd, virage2, sk_keys, sk, sk_hash,
                   sa1_key, sa1, sa1_enc, outfile, sink, written>>

\* let (sk_key, sk_iv) = bootrom_keys(&bootrom)?;
BootromKeys ==
    /\ At("bootrom_keys")
    /\ \/ /\ sk_keys' = <<BootKey, BootIv>>
          /\ Continue
       \/ /\ Fail("KeyDerivation", <<"bootrom">>)
          /\ UNCHANGED sk_keys
    /\ UNCHANGED <<out_kind, reads, infile, sksa_file, bootrom, cmd, virage2, sk,
                   sk_hash, sa1_key, sa1, sa1_enc, outfile, sink, loaded, written>>

\* let sk = aes_dec_cbc(sk, &sk_key, &sk_iv, None).expect("decryption failed");
DecryptSK ==
    /\ At("dec_sk")
    /\ LET r == aes_dec_cbc(SubSeq(sksa, 1, SK_SIZE), sk_keys[1], sk_keys[2])
       IN  IF r.ok
           THEN sk' = r.val /\ Continue
           ELSE Fail("Panic", <<"decryption failed">>) /\ UNCHANGED sk
    /\ UNCHANGED <<out_kind, reads, infile, sksa_file, bootrom, cmd, virage2,
                   sk_keys, sk_hash, sa1_key, sa1, sa1_enc, outfile, sink, loaded,
                   written>>

\* hasher.update(sk); let sk_hash = hasher.finalize();   (sk is moved)
HashSK ==
    /\ At("sha1")
    /\ sk_hash' = Sha1(sk)
    /\ sk' = <<>>
    /\ Continue
    /\ UNCHANGED <<out_kind, reads, infile, sksa_file, bootrom, cmd, virage2,
                   sk_keys, sa1_key, sa1, sa1_enc, outfile, sink, loaded, written>>

\* if sk_hash[..] != virage2.sk_hash { return Err(from_hashes(..)) }
CheckHash ==
    /\ At("check_hash")
    /\ IF HashDiffers(sk_hash, virage2.sk_hash)
       THEN Fail("InvalidSKHash", <<to_hex(sk_hash), to_hex(virage2.sk_hash)>>)
       ELSE Continue
    /\ UNCHANGED <<out_kind, reads, loaded, infile, sksa_file, bootrom, cmd, virage2,
                   sk_keys, sk, sk_hash, sa1_key, sa1, sa1_enc, outfile, sink,
                   written>>

\* let sa1_key = aes_dec_cbc(&cmd.key, &virage2.boot_app_key, &cmd.common_cmd_iv, None)
\*     .expect("decryption failed");
DecryptKey ==
    /\ At("dec_key")
    /\ LET r == aes_dec_cbc(cmd.key, virage2.boot_app_key, cmd.common_cmd_iv)
       IN  IF r.ok
           THEN sa1_key' = r.val /\ Continue
           ELSE Fail("Panic", <<"decryption failed">>) /\ UNCHANGED sa1_key
    /\ UNCHANGED <<out_kind, reads, infile, sksa_file, bootrom, cmd, virage2,
                   sk_keys, sk, sk_hash, sa1, sa1_enc, outfile, sink, loaded,
                   written>>

\* let mut sa1 = make_sa1(infile);
MakeSa1 ==
    /\ At("make_sa1")
    /\ sa1' = make_sa1(infile)
    /\ Continue
    /\ UNCHANGED <<out_kind, reads, infile, sksa_file, bootrom, cmd, virage2,
                   sk_keys, sk, sk_hash, sa1_key, sa1_enc, outfile, sink, loaded,
                   written>>

\* sa1.resize(cmd.size as _, 0);
ResizeSa1 ==
    /\ At("resize")
    /\ sa1' = resize(sa1, cmd.size, 0)
    /\ Continue
    /\ UNCHANGED <<out_kind, reads, infile, sksa_file, bootrom, cmd, virage2,
                   sk_keys, sk, sk_hash, sa1_key, sa1_enc, outfile, sink, loaded,
                   written>>

\* let sa1_enc = aes_enc_cbc(&sa1, &sa1_key, &cmd.iv, None).expect("encryption failed");
EncryptSa1 ==
    /\ At("enc_sa1")
    /\ LET r == aes_enc_cbc(sa1, sa1_key, cmd.iv)
       IN  IF r.ok
           THEN sa1_enc' = r.val /\ Continue
           ELSE Fail("Panic", <<"encryption failed">>) /\ UNCHANGED sa1_enc
    /\ UNCHANGED <<out_kind, reads, infile, sksa_file, bootrom, cmd, virage2,
                   sk_keys, sk, sk_hash, sa1_key, sa1, outfile, sink, loaded,
                   written>>

\* outfile.extend(&sksa[0..SKSA_MIN_BYTES]); outfile.extend(sa1_enc);
AssembleOutfile ==
    /\ At("assemble")
    /\ outfile' = Assemble(sksa, sa1_enc)
    /\ Continue
    /\ UNCHANGED <<out_kind, reads, infile, sksa_file, bootrom, cmd, virage2,
                   sk_keys, sk, sk_hash, sa1_key, sa1, sa1_enc, sink, loaded,
                   written>>

\* IOType::write, Self::Stdout => stdout().write(data.as_ref()): one write call,
\* which may accept fewer bytes than it is given and answers Ok(n)
StdoutWrite ==
    \/ \E short \in 0..MaxShort :
         /\ short <= Len(outfile)
         /\ sink' = SubSeq(outfile, 1, Len(outfile) - short)
         /\ written' = Len(outfile) - short
         /\ pc' = "done" /\ result' = "Ok" /\ err' = <<>>
    \/ /\ sink' = <<>>
       /\ written' = 0
       /\ Fail("Io", <<"outfile">>)

\* IOType::write, Self::File(path) => write(path, &data).and(Ok(len)): fs::write
\* is write_all; on an error the file may hold a prefix of the data
FileWrite ==
    \/ /\ sink' = outfile
       /\ written' = Len(outfile)
       /\ pc' = "done" /\ result' = "Ok" /\ err' = <<>>
    \/ \E short \in 1..(MaxShort + 1) :
         /\ short <= Len(outfile)
         /\ sink' = SubSeq(outfile, 1, Len(outfile) - short)
         /\ written' = 0
         /\ Fail("Io", <<"outfile">>)

\* args.outfile.write(outfile)?; Ok(())
WriteOutfile ==
    /\ At("write")
    /\ \/ out_kind = "Stdout" /\ StdoutWrite
       \/ out_kind = "File" /\ FileWrite
    /\ UNCHANGED <<out_kind, reads, infile, sksa_file, bootrom, cmd, virage2,
                   sk_keys, sk, sk_hash, sa1_key, sa1, sa1_enc, outfile, loaded>>

Next ==
    \/ ReadInfile \/ ReadSksa \/ CheckLength \/ DecodeCmd \/ CheckCapacity
    \/ ReadVirage2 \/ DecodeVirage2 \/ ReadBootrom \/ BootromKeys
    \/ DecryptSK \/ HashSK \/ CheckHash \/ DecryptKey
    \/ MakeSa1 \/ ResizeSa1 \/ EncryptSa1 \/ AssembleOutfile \/ WriteOutfile

Spec == Init /\ [][Next]_vars

\* ------------------------------------------------------------ properties

Ran(stage) == \E i \in 1..Len(trace) : trace[i] = stage

\* Ran(a) and Ran(b), a first
RanBefore(a, b) ==
    \E i, j \in 1..Len(trace) : i < j /\ trace[i] = a /\ trace[j] = b

CryptoStages == {"bootrom_keys", "dec_sk", "sha1", "dec_key", "enc_sa1"}

Inputs == {"infile", "sksa", "virage2", "bootrom"}

\* C1: a container shorter than SK_SIZE + INFO_BLOCK_SIZE that has been read ends
\* build with SKSATooShort(len); no cryptographic function runs and nothing is written.
C1_ShortContainerRejected ==
    ("sksa" \in loaded /\ Len(sksa) < SK_SIZE + SA1_INFO_BLOCK_SIZE) =>
        /\ \A st \in CryptoStages : ~Ran(st)
        /\ ~Ran("write")
        /\ sink = <<>>
        /\ Ran("check_len") =>
              /\ pc = "done"
              /\ result = "SKSATooShort"
              /\ err = <<Len(sksa)>>

C1_Witness ==
    /\ "sksa" \in loaded
    /\ Len(sksa) = SK_SIZE + SA1_INFO_BLOCK_SIZE - 1
    /\ result = "SKSATooShort"

\* C2: once the capacity check has run on a payload longer than
\* target_image_size - ROM_HEADER_SIZE, build has ended with PayloadTooLong and
\* the kernel has not been decrypted.
C2_OversizePayloadRejected ==
    (Ran("check_cap") /\ Len(infile) > cmd.size - ROM_HEADER_SIZE) =>
        /\ result = "PayloadTooLong"
        /\ ~Ran("dec_sk")

\* C3: the output is written only when the digest of the decrypted kernel equals
\* the trust anchor's digest; when they differ in any byte build ends with
\* InvalidSKHash and neither the session key derivation, the image encryption nor
\* the write takes place.
C3_HashGate ==
    LET differ == \E i \in 1..SHA1_SIZE : sk_hash[i] # virage2.sk_hash[i]
    IN  /\ pc = "check_hash" =>
              sk_hash = Sha1(aes_dec_cbc(SubSeq(sksa, 1, SK_SIZE),
                                         sk_keys[1], sk_keys[2]).val)
        /\ (Ran("write") \/ sink # <<>>) => (Ran("check_hash") /\ ~differ)
        /\ (Ran("check_hash") /\ differ) =>
              /\ result = "InvalidSKHash"
              /\ pc = "done"
              /\ err = <<to_hex(sk_hash), to_hex(virage2.sk_hash)>>
              /\ ~Ran("dec_key") /\ ~Ran("enc_sa1") /\ ~Ran("write")
              /\ sink = <<>>

C3_Witness ==
    /\ result = "InvalidSKHash"
    /\ sksa_file.flip = 0
    /\ \A i \in 1..(SHA1_SIZE - 1) : sk_hash[i] = virage2.sk_hash[i]

\* C4: the assembled output is the first SK_SIZE + INFO_BLOCK_SIZE bytes of the
\* container, unchanged, followed by the second-stage ciphertext and nothing else:
\* its length is SK_SIZE + INFO_BLOCK_SIZE + target_image_size.
C4_OutputLayout ==
    Ran("assemble") =>
        /\ Len(outfile) = SK_SIZE + SA1_INFO_BLOCK_SIZE + cmd.size
        /\ SubSeq(outfile, 1, SK_SIZE + SA1_INFO_BLOCK_SIZE)
              = SubSeq(sksa, 1, SK_SIZE + SA1_INFO_BLOCK_SIZE)
        /\ Len(sa1_enc) = cmd.size
        /\ \A i \in 1..cmd.size :
              outfile[SK_SIZE + SA1_INFO_BLOCK_SIZE + i] = sa1_enc[i]

C4_Witness ==
    /\ result = "Ok"
    /\ Len(sksa) > SK_SIZE + SA1_INFO_BLOCK_SIZE
    /\ Len(infile) > 0
    /\ cmd.size > ROM_HEADER_SIZE

\* C5: a block-cipher operation that cannot run on its key, iv and buffer ends
\* build with a named cipher-failure error, never with a panic.
C5_CipherFailureIsAnError ==
    /\ (Ran("dec_sk") /\ ~CipherArgsOk(SubSeq(sksa, 1, SK_SIZE), sk_keys[1], sk_keys[2]))
          => result = "CipherFailure"
    /\ (Ran("dec_key") /\ ~CipherArgsOk(cmd.key, virage2.boot_app_key, cmd.common_cmd_iv))
          => result = "CipherFailure"
    /\ (Ran("enc_sa1") /\ ~CipherArgsOk(sa1, sa1_key, cmd.iv))
          => result = "CipherFailure"

\* C6: the stages run in program order, each at most once; the first failure ends
\* build with nothing run after it and the sink untouched; the write is the last
\* stage and happens only after every other stage has succeeded.
C6_FailStop ==
    /\ Len(trace) <= Len(Stages)
    /\ \A i \in 1..Len(trace) : trace[i] = Stages[i]
    /\ (result = "Running") = (pc # "done")
    /\ result = "Running" => pc = Stages[Len(trace) + 1]
    /\ ~Ran("write") => sink = <<>>
    /\ Ran("write") => (Len(trace) = Len(Stages) /\ pc = "done")

C6_Witness ==
    /\ result = "Decode"
    /\ Ran("decode_virage2")
    /\ pc = "done"
    /\ sink = <<>>

\* C7: when build returns success the sink has received the whole assembled
\* container, SK_SIZE + INFO_BLOCK_SIZE + target_image_size bytes.
C7_SuccessMeansAllWritten ==
    result = "Ok" =>
        /\ Len(sink) = SK_SIZE + SA1_INFO_BLOCK_SIZE + cmd.size
        /\ sink = outfile

\* C8: whenever the second-stage image is built, ROM_HEADER_SIZE + payload length
\* <= target_image_size, so the resize keeps the header and the payload whole.
C8_ResizeNeverTruncates ==
    /\ pc = "make_sa1" => ROM_HEADER_SIZE + Len(infile) <= cmd.size
    /\ Ran("resize") =>
          /\ Len(sa1) >= ROM_HEADER_SIZE + Len(infile)
          /\ SubSeq(sa1, 1, ROM_HEADER_SIZE + Len(infile)) = make_sa1(infile)

\* C9: for a payload of at most target_image_size - ROM_HEADER_SIZE bytes the
\* plaintext image is target_image_size bytes: 0x80 0x30 0x00 0x00 at
\* ENTRYPOINT_OFFSET, the rest of the header zero, then the payload, then zeros.
\* make_sa1 alone gives ROM_HEADER_SIZE + payload length bytes.
C9_ReferenceImage ==
    LET ref(i) ==
            IF i = ENTRYPOINT_OFFSET + 1 THEN 128
            ELSE IF i = ENTRYPOINT_OFFSET + 2 THEN 48
            ELSE IF i <= ROM_HEADER_SIZE THEN 0
            ELSE IF i <= ROM_HEADER_SIZE + Len(infile) THEN infile[i - ROM_HEADER_SIZE]
            ELSE 0
    IN  /\ pc = "resize" =>
              /\ Len(sa1) = ROM_HEADER_SIZE + Len(infile)
              /\ \A i \in 1..Len(sa1) : sa1[i] = ref(i)
        /\ (Ran("resize") /\ Len(infile) <= cmd.size - ROM_HEADER_SIZE) =>
              /\ Len(sa1) = cmd.size
              /\ \A i \in 1..cmd.size : sa1[i] = ref(i)

C9_Witness ==
    /\ Ran("resize")
    /\ Len(infile) > 0
    /\ infile[1] = 255
    /\ cmd.size > ROM_HEADER_SIZE + Len(infile)

\* C10 as claimed: when a processing stage is about to run, all four inputs are
\* in memory.
C10_AllInputsReadFirst ==
    pc \in {"check_len", "decode_cmd", "check_cap"} => loaded = Inputs

\* C10 as amended: each input is read at most once and is in memory before the
\* first stage that uses it; the payload and the container are read before any
\* processing, the trust anchor and the boot ROM only after the capacity check.
C10_ReadOnceBeforeUse ==
    /\ \A x \in Inputs : Cardinality({i \in 1..Len(reads) : reads[i] = x}) <= 1
    /\ Ran("check_len") => {"infile", "sksa"} \subseteq loaded
    /\ Ran("decode_virage2") => "virage2" \in loaded
    /\ Ran("bootrom_keys") => "bootrom" \in loaded
    /\ Ran("read_virage2") => RanBefore("check_cap", "read_virage2")
    /\ Ran("read_bootrom") => RanBefore("check_cap", "read_bootrom")

C10_Witness ==
    /\ Ran("bootrom_keys")
    /\ loaded = Inputs
    /\ reads = <<"infile", "sksa", "virage2", "bootrom">>

====
